---- MODULE Spec2Model ----
(***************************************************************************)
(* Model of the console session core: the menu registry of console.go      *)
(* (New, NewMenu, Menu, CurrentMenu, SwitchMenu, reloadConfig, activeMenu) *)
(* and the execution controller of execute.go (execute).                   *)
(*                                                                         *)
(* Spec     : the operations called one at a time by the read-eval loop,   *)
(*            execute() stepping through its program points.               *)
(* SpecConc : the registry operations called from several threads, each    *)
(*            stepping statement by statement under the sync.RWMutex.      *)
(***************************************************************************)
EXTENDS Integers, Sequences, FiniteSets, TLC

\* ------------------------------------------------------------------ bounds
MaxObjs == 3        \* Menu objects ever allocated (the default one included)
NumThreads == 2     \* threads calling into the console concurrently
MaxCalls == 3
NumHooks == 2       \* calls the threads make in one concurrent run

\* ------------------------------------------------------ values and inputs
Nil == 0
MenuNames == {"", "sub", "alt"}
\* the names the concurrent callers use
ConcNames == {"", "sub"}
\* historyNames of a menu as newMenu returns it
DefaultHistory == <<"main">>
\* historyNames of a menu once its creator has configured it: none, one
\* source, two sources
HistChoices == {<<>>, <<"main">>, <<"aux", "main">>}
ArgChoices == {<<"cmd">>}
ErrTexts == {"unknown command"}
Threads == 1..NumThreads

NilErr == [kind |-> "nil", type |-> "none", msg |-> ""]
\* *flags.Error values (a Type and a Message) and foreign error values.
FlagsErrors == [kind : {"flags"}, type : {"ErrHelp", "ErrUnknownCommand"}, msg : ErrTexts]
ForeignErrors == [kind : {"foreign"}, type : {"none"}, msg : ErrTexts]
ParserErrors == {NilErr} \cup FlagsErrors \cup ForeignErrors

parserError == "parser error: "

\* the result value of ParseArgs: what was parsed before it returned
NoResult == <<>>
ParserResults == {<<>>, <<"cmd">>}

VARIABLES
    menus,        \* c.menus : name -> Menu object id
    objs,         \* the Menu objects allocated so far, by id
    bound,        \* c.shell.History : the bound history source names, in order
    isExecuting,  \* c.isExecuting
    pcE,          \* position of the read-eval thread inside execute
    eargs,        \* args of the current execute call
    perr,         \* err returned by c.parser.ParseArgs
    presult,      \* result returned by c.parser.ParseArgs
    out,          \* lines printed by execute (fmt.Println)
    helpLog,      \* results handed to c.handleHelpFlag
    callerErr,    \* what the caller of execute receives from it
    lastOp,       \* the operation that made the last step
    pc,           \* per thread: position inside its call
    loc,          \* per thread: the call's parameters and locals
    readers,      \* c.mutex : threads holding the read lock
    wOwner,       \* c.mutex : thread holding or waiting for the write lock
    wHeld,        \* c.mutex : the write lock is held (readers drained)
    obs,          \* per thread: what its last read of the current menu saw
    ncalls,       \* calls the threads have made so far
    overlap,      \* names of the SwitchMenu calls that ran while another did
    hpc,          \* position of the read-eval loop in the processing of a line
    hidx,         \* index of the next PreCmdRunLineHooks entry to call
    htok,         \* the line's tokens, as the hooks have rewritten them so far
    hran,         \* indices of the hooks called for the line
    hfail,        \* index of the hook that failed for the line, 0 if none
    sample,       \* what the last asynchronous read of c.isExecuting returned
    wlog,         \* values the current execute call has written to c.isExecuting
    staleExec     \* value of c.isExecuting before its latest write

menuVars == <<menus, objs, bound>>
execVars == <<isExecuting, pcE, eargs, perr, presult, out, helpLog, callerErr>>
concVars == <<pc, loc, readers, wOwner, wHeld, obs, ncalls, overlap>>
lineVars == <<hpc, hidx, htok, hran, hfail>>
flagVars == <<sample, wlog, staleExec>>
vars == <<menus, objs, bound, isExecuting, pcE, eargs, perr, presult, out, helpLog,
          callerErr, lastOp, pc, loc, readers, wOwner, wHeld, obs, ncalls, overlap,
          hpc, hidx, htok, hran, hfail, sample, wlog, staleExec>>

\* ------------------------------------------------------------ Menu objects
\* newMenu(name, c): a fresh Menu, not active, with its history sources.
newMenu(name, hn) == [name |-> name, active |-> FALSE, historyNames |-> hn]

\* c.shell.History.Delete(): unbind every source.
HistoryDelete(b) == <<>>

\* c.shell.History.Add(name, source): bind one more source, last.
HistoryAdd(b, name) == Append(b, name)

\* for _, name := range menu.historyNames { c.shell.History.Add(name, ...) }
RECURSIVE HistoryAddAll(_, _)
HistoryAddAll(b, hn) ==
    IF hn = <<>> THEN b ELSE HistoryAddAll(HistoryAdd(b, Head(hn)), Tail(hn))

\* Variant: the scan for an active menu is missing.
activeMenuDefaultOnly(m, o) == {IF "" \in DOMAIN m THEN m[""] ELSE Nil}

\* Variant: the fallback to the default menu is missing.
activeMenuNoFallback(m, o) ==
    LET act == {n \in DOMAIN m : o[m[n]].active}
    IN  IF act # {} THEN {m[n] : n \in act} ELSE {Nil}

\* activeMenu(): map iteration order is unspecified, so any menu found
\* active may be the one returned; with none active, c.menus[""].
activeMenuResults(m, o) ==
    LET act == {n \in DOMAIN m : o[m[n]].active}
    IN  IF act # {} THEN {m[n] : n \in act}
        ELSE {IF "" \in DOMAIN m THEN m[""] ELSE Nil}

\* Menu(name): c.menus[name], nil when absent.
MenuLookup(m, name) == IF name \in DOMAIN m THEN m[name] ELSE Nil

\* the registry after c.menus[name] = menu
MapStore(m, name, id) == [n \in DOMAIN m \cup {name} |-> IF n = name THEN id ELSE m[n]]

\* a thread's locals outside a call, and a read that has not happened
NoCall == [op |-> "none", name |-> "", cur |-> Nil, target |-> Nil, i |-> 0,
           ret |-> Nil, preCur |-> {}, preBound |-> <<>>, preMenus |-> <<>>]
NoObs == [cur |-> Nil, bound |-> <<>>, menus |-> <<>>, during |-> {}]

\* ------------------------------------------------------------------- New()
\* no asynchronous read of c.isExecuting has been made
NoSample == [at |-> "none", val |-> FALSE]

Init0(hn) ==
    /\ menus = MapStore(<<>>, "", 1)
    /\ objs = <<[newMenu("", hn) EXCEPT !.active = TRUE]>>
    /\ bound = HistoryAddAll(<<>>, hn)
    /\ isExecuting = FALSE
    /\ pcE = "idle"
    /\ eargs = <<>>
    /\ perr = NilErr
    /\ presult = NoResult
    /\ out = <<>>
    /\ helpLog = <<>>
    /\ callerErr = NilErr
    /\ lastOp = [op |-> "New", name |-> "", ret |-> 1, wasCurrent |-> FALSE]
    /\ pc = [t \in Threads |-> "idle"]
    /\ loc = [t \in Threads |-> NoCall]
    /\ readers = {}
    /\ wOwner = Nil
    /\ wHeld = FALSE
    /\ obs = [t \in Threads |-> NoObs]
    /\ ncalls = 0
    /\ overlap = {}
    /\ hpc = "idle"
    /\ hidx = 1
    /\ htok = <<>>
    /\ hran = {}
    /\ hfail = 0
    /\ sample = NoSample
    /\ wlog = <<>>
    /\ staleExec = FALSE

Init == Init0(DefaultHistory)

\* ------------------------------------------- registry operations, serially
\* The registry operations run on the read-eval thread: between two
\* execute calls, or from a command that the parser call is running.
ReadEvalCanCall == pcE \in {"idle", "parsing", "returned", "unwound"}

\* Variant: an existing entry is kept instead of being replaced.
NewMenuKeepsExisting(m, o, name) ==
    IF name \in DOMAIN m THEN m ELSE MapStore(m, name, Len(o) + 1)

\* NewMenu: the registry and the objects after lines 117-118.
NewMenuMenus(m, o, name) == MapStore(m, name, Len(o) + 1)

NewMenuObjs(o, name, hn) == Append(o, newMenu(name, hn))

NewMenu(name) ==
    /\ ReadEvalCanCall
    /\ Len(objs) < MaxObjs
    /\ \E hn \in HistChoices :
        /\ objs' = NewMenuObjs(objs, name, hn)
        /\ menus' = NewMenuMenus(menus, objs, name)
    /\ lastOp' = [op |-> "NewMenu", name |-> name, ret |-> Len(objs) + 1, wasCurrent |-> FALSE]
    /\ UNCHANGED <<bound, execVars, concVars, lineVars, flagVars>>

\* SwitchMenu: target found and not nil (line 149).
SwitchFound(m, name) == name \in DOMAIN m /\ m[name] # Nil

\* Variant: the current menu is not marked inactive.
SwitchMenuNoDeactivate(m, o, name, cur) ==
    IF SwitchFound(m, name) THEN [o EXCEPT ![m[name]].active = TRUE] ELSE o

\* SwitchMenu: the Menu objects after lines 149-155, cur being what
\* activeMenu() returned.
SwitchMenuObjs(m, o, name, cur) ==
    IF SwitchFound(m, name)
    THEN LET o1 == IF cur # Nil THEN [o EXCEPT ![cur].active = FALSE] ELSE o
         IN  [o1 EXCEPT ![m[name]].active = TRUE]
    ELSE o

\* Variant: the history sources are unbound before the target is looked up.
SwitchMenuDeleteUnguarded(m, o, b, name) ==
    IF SwitchFound(m, name)
    THEN HistoryAddAll(HistoryDelete(b), o[m[name]].historyNames)
    ELSE HistoryDelete(b)

\* Variant: the target's sources are added without unbinding the old ones.
SwitchMenuNoDelete(m, o, b, name) ==
    IF SwitchFound(m, name)
    THEN HistoryAddAll(b, o[m[name]].historyNames)
    ELSE b

\* SwitchMenu: the bound history sources after lines 159-163.
SwitchMenuBound(m, o, b, name) ==
    IF SwitchFound(m, name)
    THEN HistoryAddAll(HistoryDelete(b), o[m[name]].historyNames)
    ELSE b

\* name is registered, its menu is the one marked active and the bound
\* history sources are that menu's.
AlreadyCurrent(m, o, b, name) ==
    /\ SwitchFound(m, name)
    /\ o[m[name]].active
    /\ b = o[m[name]].historyNames

SwitchMenu(name) ==
    /\ ReadEvalCanCall
    /\ \E cur \in activeMenuResults(menus, objs) :
        objs' = SwitchMenuObjs(menus, objs, name, cur)
    /\ bound' = SwitchMenuBound(menus, objs, bound, name)
    /\ lastOp' = [op |-> "SwitchMenu", name |-> name, ret |-> Nil,
                   wasCurrent |-> AlreadyCurrent(menus, objs, bound, name)]
    /\ UNCHANGED <<menus, execVars, concVars, lineVars, flagVars>>

CurrentMenu ==
    /\ ReadEvalCanCall
    /\ \E r \in activeMenuResults(menus, objs) :
        lastOp' = [op |-> "CurrentMenu", name |-> "", ret |-> r, wasCurrent |-> FALSE]
    /\ UNCHANGED <<menuVars, execVars, concVars, lineVars, flagVars>>

Menu(name) ==
    /\ ReadEvalCanCall
    /\ lastOp' = [op |-> "Menu", name |-> name, ret |-> MenuLookup(menus, name),
                   wasCurrent |-> FALSE]
    /\ UNCHANGED <<menuVars, execVars, concVars, lineVars, flagVars>>

\* reloadConfig: menu := c.activeMenu(); menu.prompt.bind(c.shell)
reloadConfig ==
    /\ ReadEvalCanCall
    /\ \E r \in activeMenuResults(menus, objs) :
        /\ r # Nil
        /\ lastOp' = [op |-> "reloadConfig", name |-> "", ret |-> r, wasCurrent |-> FALSE]
    /\ UNCHANGED <<menuVars, execVars, concVars, lineVars, flagVars>>

NextMenu ==
    \/ \E name \in MenuNames : NewMenu(name)
    \/ \E name \in MenuNames : SwitchMenu(name)
    \/ \E name \in MenuNames : Menu(name)
    \/ CurrentMenu
    \/ reloadConfig

\* ------------------------------------------------------------- execute()
\* Variant: starting a command also unbinds the history sources.
ExecStartClearsHistory(args) ==
    /\ pcE \in {"idle", "returned", "unwound"}
    /\ isExecuting' = TRUE
    /\ pcE' = "parsing"
    /\ eargs' = args
    /\ perr' = NilErr
    /\ presult' = NoResult
    /\ out' = <<>>
    /\ helpLog' = <<>>
    /\ callerErr' = NilErr
    /\ wlog' = <<TRUE>>
    /\ staleExec' = isExecuting
    /\ hpc' = IF hpc = "ready" THEN "executing" ELSE hpc
    /\ bound' = HistoryDelete(bound)
    /\ lastOp' = [op |-> "execute", name |-> "start", ret |-> Nil, wasCurrent |-> FALSE]
    /\ UNCHANGED <<menus, objs, concVars, hidx, htok, hran, hfail, sample>>

\* line 17, and the parser call of line 23 begins
ExecStart(args) ==
    /\ pcE \in {"idle", "returned", "unwound"}
    /\ isExecuting' = TRUE
    /\ pcE' = "parsing"
    /\ eargs' = args
    /\ perr' = NilErr
    /\ presult' = NoResult
    /\ out' = <<>>
    /\ helpLog' = <<>>
    /\ callerErr' = NilErr
    /\ wlog' = <<TRUE>>
    /\ staleExec' = isExecuting
    /\ hpc' = IF hpc = "ready" THEN "executing" ELSE hpc
    /\ lastOp' = [op |-> "execute", name |-> "start", ret |-> Nil, wasCurrent |-> FALSE]
    /\ UNCHANGED <<menuVars, concVars, hidx, htok, hran, hfail, sample>>

\* line 23: c.parser.ParseArgs(args) returns (result, err)
ParserReturns(err, res) ==
    /\ pcE = "parsing"
    /\ perr' = err
    /\ presult' = res
    /\ pcE' = "handling"
    /\ lastOp' = [op |-> "execute", name |-> "parsed", ret |-> Nil, wasCurrent |-> FALSE]
    /\ UNCHANGED <<menuVars, concVars, lineVars, flagVars, isExecuting, eargs, out, helpLog, callerErr>>

\* line 23: c.parser.ParseArgs(args) panics
ParserPanics ==
    /\ pcE = "parsing"
    /\ pcE' = "panicking"
    /\ lastOp' = [op |-> "execute", name |-> "panic", ret |-> Nil, wasCurrent |-> FALSE]
    /\ UNCHANGED <<menuVars, concVars, lineVars, flagVars, isExecuting, eargs, perr, presult, out, helpLog, callerErr>>

\* Variant: the help view is rendered for every structured parser error.
HelpCallsAnyFlagsError(err, result) ==
    IF err = NilErr THEN <<>>
    ELSE IF err.kind # "flags" THEN <<>>
    ELSE <<result>>

\* lines 27-44: the calls of c.handleHelpFlag(result) made for err
HelpCalls(err, result) ==
    IF err = NilErr THEN <<>>
    ELSE IF err.kind # "flags" THEN <<>>
    ELSE IF err.type = "ErrHelp" THEN <<result>>
    ELSE <<>>

\* Variant: the type assertion is missing, foreign errors are printed too.
PrintedAnyError(err) ==
    IF err = NilErr THEN <<>>
    ELSE IF err.kind = "flags" /\ err.type = "ErrHelp" THEN <<>>
    ELSE <<parserError \o err.msg>>

\* lines 27-44: the lines printed for err
Printed(err) ==
    IF err = NilErr THEN <<>>
    ELSE IF err.kind # "flags" THEN <<>>
    ELSE IF err.type = "ErrHelp" THEN <<>>
    ELSE <<parserError \o err.msg>>

HandleError ==
    /\ pcE = "handling"
    /\ helpLog' = helpLog \o HelpCalls(perr, presult)
    /\ out' = out \o Printed(perr)
    /\ pcE' = "exiting"
    /\ lastOp' = [op |-> "execute", name |-> "handled", ret |-> Nil, wasCurrent |-> FALSE]
    /\ UNCHANGED <<menuVars, concVars, lineVars, flagVars, isExecuting, eargs, perr, presult, callerErr>>

\* Variant: the reset is a plain last statement, skipped by a panic.
ResetNotDeferred(at, cur) == IF at = "panicking" THEN cur ELSE FALSE

\* lines 18-20: the value the deferred function leaves in c.isExecuting;
\* it runs when execute returns and when a panic unwinds through it.
DeferredReset(at, cur) == FALSE

\* line 12: execute has no result; nothing of err reaches its caller.
ExecuteResult(err) == NilErr

ExecExit ==
    /\ pcE \in {"exiting", "panicking"}
    /\ isExecuting' = DeferredReset(pcE, isExecuting)
    /\ wlog' = Append(wlog, isExecuting')
    /\ staleExec' = isExecuting
    /\ pcE' = IF pcE = "exiting" THEN "returned" ELSE "unwound"
    /\ callerErr' = IF pcE = "exiting" THEN ExecuteResult(perr) ELSE callerErr
    /\ lastOp' = [op |-> "execute", name |-> "exit", ret |-> Nil, wasCurrent |-> FALSE]
    /\ UNCHANGED <<menuVars, concVars, lineVars, sample, eargs, perr, presult, out, helpLog>>

NextExec ==
    \/ \E args \in ArgChoices : ExecStart(args)
    \/ \E err \in ParserErrors : \E res \in ParserResults : ParserReturns(err, res)
    \/ ParserPanics
    \/ HandleError
    \/ ExecExit

Next == NextMenu \/ NextExec

Spec == Init /\ [][Next]_vars

\* ------------------------------------- registry operations, concurrently
ReadLockOps == {"NewMenu", "SwitchMenu", "reloadConfig"}
WriteLockOps == {"CurrentMenu", "Menu"}
BodyStart(op) ==
    CASE op = "NewMenu" -> "nm_store"
      [] op = "SwitchMenu" -> "sw_lookup"
      [] op = "reloadConfig" -> "rc_active"
      [] op = "CurrentMenu" -> "cm_active"
      [] op = "Menu" -> "mn_lookup"

\* NewMenu calls that have not allocated their Menu yet
PendingNew ==
    {t \in Threads : loc[t].op = "NewMenu" /\ pc[t] \in {"lock", "nm_store", "nm_storing"}}

\* SwitchMenu calls between the target lookup and the release of the guard,
\* each with the state it started from and the state it is to leave.
SwitchesInFlight ==
    {[preCur |-> loc[s].preCur, preBound |-> loc[s].preBound,
      preMenus |-> loc[s].preMenus,
      target |-> loc[s].target, postBound |-> objs[loc[s].target].historyNames] :
        s \in {t \in Threads : loc[t].op = "SwitchMenu" /\ loc[t].target # Nil
                                  /\ pc[t] # "idle"}}

\* The SwitchMenu calls that run at the same time as the call of thread t
\* for name, which has just found its target: a call that starts with no
\* other under way begins a new record.
SwitchOverlap(t, name) ==
    LET others == {loc[u].name : u \in {v \in Threads \ {t} :
                        loc[v].op = "SwitchMenu" /\ loc[v].target # Nil /\ pc[v] # "idle"}}
    IN  IF others = {} THEN {} ELSE overlap \cup others \cup {name}

Call(t, op, name) ==
    /\ pc[t] = "idle"
    /\ ncalls < MaxCalls
    /\ ncalls' = ncalls + 1
    /\ op = "NewMenu" => Len(objs) + Cardinality(PendingNew) < MaxObjs
    /\ op \in {"CurrentMenu", "reloadConfig"} => name = ""
    /\ loc' = [loc EXCEPT ![t] = [NoCall EXCEPT !.op = op, !.name = name]]
    /\ pc' = [pc EXCEPT ![t] = "lock"]
    /\ UNCHANGED <<menuVars, execVars, lineVars, flagVars, lastOp, overlap, readers, wOwner, wHeld, obs>>

\* c.mutex.RLock(): waits while a writer holds or awaits the lock.
RLock(t) ==
    /\ pc[t] = "lock"
    /\ loc[t].op \in ReadLockOps
    /\ wOwner = Nil
    /\ readers' = readers \cup {t}
    /\ pc' = [pc EXCEPT ![t] = BodyStart(loc[t].op)]
    /\ UNCHANGED <<menuVars, execVars, lineVars, flagVars, lastOp, overlap, loc, wOwner, wHeld, obs, ncalls>>

\* c.mutex.Lock(), first half: announce the writer, new readers now wait.
LockBegin(t) ==
    /\ pc[t] = "lock"
    /\ loc[t].op \in WriteLockOps
    /\ wOwner = Nil
    /\ wOwner' = t
    /\ pc' = [pc EXCEPT ![t] = "lockwait"]
    /\ UNCHANGED <<menuVars, execVars, lineVars, flagVars, lastOp, overlap, loc, readers, wHeld, obs, ncalls>>

\* c.mutex.Lock(), second half: the readers have left.
LockAcquire(t) ==
    /\ pc[t] = "lockwait"
    /\ wOwner = t
    /\ readers = {}
    /\ wHeld' = TRUE
    /\ pc' = [pc EXCEPT ![t] = BodyStart(loc[t].op)]
    /\ UNCHANGED <<menuVars, execVars, lineVars, flagVars, lastOp, overlap, loc, readers, wOwner, obs, ncalls>>

\* positions at which a thread reads or starts to write the map c.menus
\* while holding only the read lock (lines 118, 149, 150 and 193)
MapAccessLabels == {"nm_store", "sw_lookup", "sw_active", "rc_active"}

\* NewMenu line 118, c.menus[name] = menu: the map assignment begins. It is
\* not atomic, and the read lock lets other threads reach the map meanwhile.
NmStoreBegin(t) ==
    /\ pc[t] = "nm_store"
    /\ pc' = [pc EXCEPT ![t] = "nm_storing"]
    /\ UNCHANGED <<menuVars, execVars, lineVars, flagVars, lastOp, overlap, loc,
                   readers, wOwner, wHeld, obs, ncalls>>

\* A thread reaches the map while another thread's assignment of line 118 is
\* under way: a data race on c.menus. Besides carrying on, the Go runtime may
\* stop the process ("fatal error: concurrent map writes" / "concurrent map
\* read and map write"); no deferred call runs and no call returns.
MapRaceFatal(t) ==
    /\ pc[t] \in MapAccessLabels
    /\ \E u \in Threads \ {t} : pc[u] = "nm_storing"
    /\ pc' = [u \in Threads |-> "fatal"]
    /\ UNCHANGED <<menuVars, execVars, lineVars, flagVars, lastOp, overlap, loc,
                   readers, wOwner, wHeld, obs, ncalls>>

\* NewMenu lines 117-118: menu := newMenu(name, c); c.menus[name] = menu
\* (the new Menu is private to the thread until the store publishes it)
NmStore(t) ==
    /\ pc[t] = "nm_storing"
    /\ \E hn \in HistChoices : objs' = NewMenuObjs(objs, loc[t].name, hn)
    /\ menus' = NewMenuMenus(menus, objs, loc[t].name)
    /\ loc' = [loc EXCEPT ![t].ret = Len(objs) + 1]
    /\ pc' = [pc EXCEPT ![t] = "unlock"]
    /\ UNCHANGED <<bound, execVars, lineVars, flagVars, lastOp, overlap, readers, wOwner, wHeld, obs, ncalls>>

\* SwitchMenu line 149: target, found := c.menus[menu]
SwLookup(t) ==
    /\ pc[t] = "sw_lookup"
    /\ IF SwitchFound(menus, loc[t].name)
       THEN /\ loc' = [loc EXCEPT ![t].target = menus[loc[t].name],
                                  ![t].preCur = activeMenuResults(menus, objs),
                                  ![t].preBound = bound,
                                  ![t].preMenus = menus]
            /\ overlap' = SwitchOverlap(t, loc[t].name)
            /\ pc' = [pc EXCEPT ![t] = "sw_active"]
       ELSE /\ pc' = [pc EXCEPT ![t] = "unlock"]
            /\ UNCHANGED <<loc, overlap>>
    /\ UNCHANGED <<menuVars, execVars, lineVars, flagVars, lastOp, readers, wOwner, wHeld, obs, ncalls>>

\* SwitchMenu line 150: current := c.activeMenu()
SwActive(t) ==
    /\ pc[t] = "sw_active"
    /\ \E cur \in activeMenuResults(menus, objs) : loc' = [loc EXCEPT ![t].cur = cur]
    /\ pc' = [pc EXCEPT ![t] = "sw_deact"]
    /\ UNCHANGED <<menuVars, execVars, lineVars, flagVars, lastOp, overlap, readers, wOwner, wHeld, obs, ncalls>>

\* SwitchMenu lines 151-153: current.active = false
SwDeactivate(t) ==
    /\ pc[t] = "sw_deact"
    /\ objs' = IF loc[t].cur # Nil THEN [objs EXCEPT ![loc[t].cur].active = FALSE] ELSE objs
    /\ pc' = [pc EXCEPT ![t] = "sw_act"]
    /\ UNCHANGED <<menus, bound, execVars, lineVars, flagVars, lastOp, overlap, loc, readers, wOwner, wHeld, obs, ncalls>>

\* SwitchMenu line 155: target.active = true
SwActivate(t) ==
    /\ pc[t] = "sw_act"
    /\ objs' = [objs EXCEPT ![loc[t].target].active = TRUE]
    /\ pc' = [pc EXCEPT ![t] = "sw_delete"]
    /\ UNCHANGED <<menus, bound, execVars, lineVars, flagVars, lastOp, overlap, loc, readers, wOwner, wHeld, obs, ncalls>>

\* SwitchMenu line 159: c.shell.History.Delete()
SwDelete(t) ==
    /\ pc[t] = "sw_delete"
    /\ bound' = HistoryDelete(bound)
    /\ loc' = [loc EXCEPT ![t].i = 1]
    /\ pc' = [pc EXCEPT ![t] =
                IF objs[loc[t].target].historyNames = <<>> THEN "unlock" ELSE "sw_add"]
    /\ UNCHANGED <<menus, objs, execVars, lineVars, flagVars, lastOp, overlap, readers, wOwner, wHeld, obs, ncalls>>

\* SwitchMenu lines 161-163: one iteration, c.shell.History.Add(name, ...)
SwAdd(t) ==
    /\ pc[t] = "sw_add"
    /\ LET hn == objs[loc[t].target].historyNames
       IN  /\ bound' = HistoryAdd(bound, hn[loc[t].i])
           /\ loc' = [loc EXCEPT ![t].i = loc[t].i + 1]
           /\ pc' = [pc EXCEPT ![t] = IF loc[t].i = Len(hn) THEN "unlock" ELSE "sw_add"]
    /\ UNCHANGED <<menus, objs, execVars, lineVars, flagVars, lastOp, overlap, readers, wOwner, wHeld, obs, ncalls>>

\* what a read of the current menu sees: the menu, the history sources
\* bound and the registry at that moment, and the switches that are under way
Observation(r) ==
    [cur |-> r, bound |-> bound, menus |-> menus, during |-> SwitchesInFlight]

\* CurrentMenu line 129: return c.activeMenu()
CmActive(t) ==
    /\ pc[t] = "cm_active"
    /\ \E r \in activeMenuResults(menus, objs) :
        /\ loc' = [loc EXCEPT ![t].ret = r]
        /\ obs' = [obs EXCEPT ![t] = Observation(r)]
    /\ pc' = [pc EXCEPT ![t] = "unlock"]
    /\ UNCHANGED <<menuVars, execVars, lineVars, flagVars, lastOp, overlap, readers, wOwner, wHeld, ncalls>>

\* Menu line 137: return c.menus[name]
MnLookup(t) ==
    /\ pc[t] = "mn_lookup"
    /\ loc' = [loc EXCEPT ![t].ret = MenuLookup(menus, loc[t].name)]
    /\ pc' = [pc EXCEPT ![t] = "unlock"]
    /\ UNCHANGED <<menuVars, execVars, lineVars, flagVars, lastOp, overlap, readers, wOwner, wHeld, obs, ncalls>>

\* reloadConfig lines 193-194: menu := c.activeMenu(); menu.prompt.bind(c.shell)
RcActive(t) ==
    /\ pc[t] = "rc_active"
    /\ \E r \in activeMenuResults(menus, objs) :
        /\ loc' = [loc EXCEPT ![t].ret = r]
        /\ obs' = [obs EXCEPT ![t] = Observation(r)]
    /\ pc' = [pc EXCEPT ![t] = "unlock"]
    /\ UNCHANGED <<menuVars, execVars, lineVars, flagVars, lastOp, overlap, readers, wOwner, wHeld, ncalls>>

\* the deferred c.mutex.RUnlock() / c.mutex.Unlock(), and the return
Release(t) ==
    /\ pc[t] = "unlock"
    /\ IF loc[t].op \in ReadLockOps
       THEN /\ readers' = readers \ {t}
            /\ UNCHANGED <<wOwner, wHeld>>
       ELSE /\ wOwner' = Nil
            /\ wHeld' = FALSE
            /\ UNCHANGED readers
    /\ pc' = [pc EXCEPT ![t] = "idle"]
    /\ loc' = [loc EXCEPT ![t] = NoCall]
    /\ obs' = [obs EXCEPT ![t] = NoObs]
    /\ UNCHANGED <<menuVars, execVars, lineVars, flagVars, lastOp, overlap, ncalls>>

NextConc ==
    \E t \in Threads :
        \/ \E op \in ReadLockOps \cup WriteLockOps : \E name \in ConcNames : Call(t, op, name)
        \/ RLock(t)
        \/ LockBegin(t)
        \/ LockAcquire(t)
        \/ NmStoreBegin(t)
        \/ MapRaceFatal(t)
        \/ NmStore(t)
        \/ SwLookup(t)
        \/ SwActive(t)
        \/ SwDeactivate(t)
        \/ SwActivate(t)
        \/ SwDelete(t)
        \/ SwAdd(t)
        \/ CmActive(t)
        \/ MnLookup(t)
        \/ RcActive(t)
        \/ Release(t)

SpecConc == Init /\ [][NextConc]_vars

\* ====================================================================
\* Properties
\* ====================================================================
ActiveNames == {n \in DOMAIN menus : objs[menus[n]].active}

IsHelp(err) == err.kind = "flags" /\ err.type = "ErrHelp"
IsParseError(err) == err.kind = "flags" /\ err.type # "ErrHelp"
HasParserErrorPrefix(line) == \E txt \in ErrTexts \cup {""} : line = parserError \o txt
ExecFinished == pcE \in {"exiting", "returned"}

\* C1: after any sequence of NewMenu and SwitchMenu calls made one at a
\* time, at most one menu of the registry has active = TRUE.
C1_AtMostOneActive == Cardinality(ActiveNames) <= 1

\* C1 witness: a switch away from the default menu has happened and the
\* target is the one active menu.
C1_Witness ==
    /\ lastOp.op = "SwitchMenu"
    /\ lastOp.name \in DOMAIN menus
    /\ lastOp.name # ""
    /\ ActiveNames = {lastOp.name}
    /\ Cardinality(DOMAIN menus) = 3

\* C2: once execute has returned or a panic has unwound through it,
\* isExecuting is FALSE, whatever the parser did.
C2_IdleAfterExecute == pcE \in {"returned", "unwound"} => isExecuting = FALSE

\* C2 witness: a panic of the parser has unwound through execute.
C2_Witness == pcE = "unwound" /\ ~isExecuting

\* C3: a SwitchMenu step on a name that is not registered leaves every
\* active flag, the current menu and the bound history sources as they were.
C3_SwitchAbsentNoop ==
    [][(lastOp'.op = "SwitchMenu" /\ lastOp'.name \notin DOMAIN menus)
        => /\ objs' = objs
           /\ menus' = menus
           /\ bound' = bound
           /\ activeMenuResults(menus', objs') = activeMenuResults(menus, objs)]_vars

\* C3 witness: SwitchMenu was called with an unregistered name while a
\* non-default menu was active and history sources were bound.
C3_Witness ==
    /\ lastOp.op = "SwitchMenu"
    /\ lastOp.name \notin DOMAIN menus
    /\ bound # <<>>
    /\ ActiveNames = {"sub"}

\* C4: a SwitchMenu step on the menu that is already active, its history
\* sources being the bound ones, leaves the active flags and the sequence of
\* bound sources as they were (nothing is bound a second time).
C4_SwitchCurrentIdempotent ==
    [][(lastOp'.op = "SwitchMenu" /\ lastOp'.wasCurrent)
        => /\ objs' = objs
           /\ bound' = bound
           /\ Len(bound') = Len(objs[menus[lastOp'.name]].historyNames)]_vars

\* C4 witness: SwitchMenu was called on the active menu, which has two
\* history sources bound.
C4_Witness ==
    /\ lastOp.op = "SwitchMenu"
    /\ lastOp.wasCurrent
    /\ Len(bound) = 2

\* C5: right after SwitchMenu on a registered name, CurrentMenu returns the
\* menu registered under that name and the bound history sources are that
\* menu's historyNames, in their order, and nothing else.
C5_SwitchSelectsTarget ==
    (lastOp.op = "SwitchMenu" /\ lastOp.name \in DOMAIN menus)
        => /\ activeMenuResults(menus, objs) = {menus[lastOp.name]}
           /\ bound = objs[menus[lastOp.name]].historyNames

\* C5 witness: a switch from a menu with one source to a menu with two.
C5_Witness ==
    /\ lastOp.op = "SwitchMenu"
    /\ lastOp.name = "sub"
    /\ "sub" \in DOMAIN menus
    /\ ~lastOp.wasCurrent
    /\ objs[menus[""]].historyNames = <<"main">>
    /\ bound = <<"aux", "main">>

\* C6: handleHelpFlag is called, once and with the parser's result, exactly
\* when the parser returned a structured error of kind help-requested, and
\* then no line with the "parser error" prefix is printed.
C6_HelpOnlyOnHelpError ==
    /\ ExecFinished => helpLog = (IF IsHelp(perr) THEN <<presult>> ELSE <<>>)
    /\ ExecFinished /\ IsHelp(perr) => \A i \in 1..Len(out) : ~HasParserErrorPrefix(out[i])
    /\ ~ExecFinished => helpLog = <<>>

\* C6 witness: execute has returned after a help-requested error.
C6_Witness == pcE = "returned" /\ IsHelp(perr) /\ Len(helpLog) = 1

\* C7: the prefix followed by the parser's error text is printed, once,
\* exactly when the parser returned a structured error that is not
\* help-requested; nothing is printed in any other case.
C7_PrintOnlyOnParseError ==
    /\ ExecFinished => out = (IF IsParseError(perr) THEN <<parserError \o perr.msg>> ELSE <<>>)
    /\ ~ExecFinished => out = <<>>

\* C7 witness: execute has returned after printing a parse error.
C7_Witness == pcE = "returned" /\ IsParseError(perr) /\ Len(out) = 1

\* C8: when the parser returns a foreign error, the caller of execute
\* receives that same error.
C8_ForeignErrorPropagated ==
    (pcE = "returned" /\ perr.kind = "foreign") => callerErr = perr

\* C9: whatever a read of the current menu (in CurrentMenu or in
\* reloadConfig) sees while a SwitchMenu on a registered name is under way is
\* either the whole state that switch started from or the whole state it
\* leaves: the menu and the bound history sources of before, or the target
\* and the target's sources (the registry being the one the switch found,
\* so that nothing but the switch accounts for what is seen).
C9_ReadSeesWholeSwitch ==
    \A t \in Threads : \A sw \in obs[t].during :
        obs[t].menus = sw.preMenus
            => \/ obs[t].cur \in sw.preCur /\ obs[t].bound = sw.preBound
               \/ obs[t].cur = sw.target /\ obs[t].bound = sw.postBound

\* The same, of the reads made by CurrentMenu only.
C9_CurrentMenuSeesWholeSwitch ==
    \A t \in Threads : loc[t].op = "CurrentMenu" => obs[t].during = {}

\* C10: a NewMenu step returns a fresh non-nil menu, registers it under the
\* name in place of any earlier entry, leaves the entries of the other names
\* and the existing menus alone, and the new menu is not active.
C10_NewMenuReplaces ==
    [][lastOp'.op = "NewMenu"
        => /\ lastOp'.ret # Nil
           /\ lastOp'.ret \notin 1..Len(objs)
           /\ MenuLookup(menus', lastOp'.name) = lastOp'.ret
           /\ \A k \in MenuNames \ {lastOp'.name} :
                 MenuLookup(menus', k) = MenuLookup(menus, k)
           /\ \A i \in 1..Len(objs) : objs'[i] = objs[i]
           /\ ~objs'[lastOp'.ret].active]_vars

\* C10 witness: NewMenu has replaced the entry of the menu that was active.
C10_Witness ==
    /\ lastOp.op = "NewMenu"
    /\ menus[lastOp.name] = lastOp.ret
    /\ \E i \in 1..Len(objs) :
          i # lastOp.ret /\ objs[i].name = lastOp.name /\ objs[i].active
\* C11: a menu is always registered under the empty name, and CurrentMenu
\* never returns nil: it returns the registered menu that is active when
\* there is one, and the menu registered under the empty name otherwise.
C11_CurrentMenuNeverNil ==
    /\ "" \in DOMAIN menus
    /\ menus[""] # Nil
    /\ lastOp.op = "CurrentMenu"
        => /\ lastOp.ret # Nil
           /\ ActiveNames # {} => \E n \in ActiveNames : lastOp.ret = menus[n]
           /\ ActiveNames = {} => lastOp.ret = menus[""]

\* C11 witness: CurrentMenu was called with no registered menu active (the
\* active one was replaced), other menus being registered, and returned the
\* default menu.
C11_Witness ==
    /\ lastOp.op = "CurrentMenu"
    /\ ActiveNames = {}
    /\ Cardinality(DOMAIN menus) >= 2
    /\ lastOp.ret = menus[""]
\* C17: with the operations called one at a time, the history sources bound
\* to the line reader are the historyNames of the menu CurrentMenu returns,
\* also after NewMenu has replaced the entry of the current menu.
C17_BoundIsCurrentMenuHistory ==
    \A id \in activeMenuResults(menus, objs) :
        id # Nil => bound = objs[id].historyNames

RegistryOps == {"NewMenu", "SwitchMenu", "Menu", "CurrentMenu", "reloadConfig"}

\* C18: isExecuting is FALSE after New(); a step of NewMenu, SwitchMenu,
\* Menu, CurrentMenu or reloadConfig leaves isExecuting as it was, and a step
\* of execute leaves the registry, every menu (its active flag included) and
\* the bound history sources as they were.
C18_ExecuteAndRegistryFrames ==
    /\ isExecuting = FALSE
    /\ [][/\ lastOp'.op \in RegistryOps => isExecuting' = isExecuting
          /\ lastOp'.op = "execute"
               => menus' = menus /\ objs' = objs /\ bound' = bound
          /\ isExecuting' # isExecuting => lastOp'.op = "execute"]_vars

\* C18 witness: a registry operation switched menus while a command was
\* executing, and execute has since returned with that menu still current.
C18_Witness ==
    /\ lastOp.op = "execute"
    /\ lastOp.name = "exit"
    /\ ~isExecuting
    /\ ActiveNames = {"sub"}
    /\ bound = <<"aux", "main">>
\* threads inside the body of NewMenu or SwitchMenu: past the acquisition of
\* the guard and not yet returned
InRegistryMutation ==
    {t \in Threads : loc[t].op \in {"NewMenu", "SwitchMenu"}
                        /\ pc[t] \notin {"idle", "lock", "fatal"}}

\* C14: NewMenu and SwitchMenu hold the guard exclusively: no two threads are
\* inside the bodies of NewMenu and/or SwitchMenu at the same time.
C14_RegistryMutationsExclusive == Cardinality(InRegistryMutation) <= 1

\* no NewMenu call has replaced an entry: every Menu ever created is registered
NoEntryReplaced == Len(objs) = Cardinality(DOMAIN menus)

AllReturned == \A t \in Threads : pc[t] = "idle"

\* SwitchMenu calls for two different registered names have run concurrently
\* and no SwitchMenu call has started on its own since; no entry was replaced
TwoSwitchesOverlapped == Cardinality(overlap) = 2 /\ NoEntryReplaced

\* C15: when two threads call SwitchMenu concurrently with two different
\* registered names, no two registered menus are active together, in any
\* state, the state after both calls returned included.
C15_ConcurrentSwitchOneActive ==
    TwoSwitchesOverlapped => \A a, b \in ActiveNames : a = b

\* C16: once two concurrent SwitchMenu calls for two different registered
\* names have both returned, the bound history sources are exactly the
\* historyNames of the one menu that is current, never a mix of the two
\* targets' sources.
C16_ConcurrentSwitchHistoryOfActive ==
    (AllReturned /\ TwoSwitchesOverlapped)
        => \E id \in activeMenuResults(menus, objs) :
              id # Nil /\ bound = objs[id].historyNames
\* a step of thread t inside a call it has made
ThreadStep(t) ==
    \/ RLock(t) \/ LockBegin(t) \/ LockAcquire(t)
    \/ NmStoreBegin(t) \/ NmStore(t)
    \/ SwLookup(t) \/ SwActive(t) \/ SwDeactivate(t) \/ SwActivate(t)
    \/ SwDelete(t) \/ SwAdd(t)
    \/ CmActive(t) \/ MnLookup(t) \/ RcActive(t)
    \/ Release(t)

\* C19: no deadlock: while some call has not returned, some thread inside a
\* call can take its next step (so that under fair scheduling every call
\* returns), and once every call has returned the guard is free.
C19_NoDeadlockGuardReleased ==
    /\ (\E t \in Threads : pc[t] # "idle") => \E t \in Threads : ENABLED ThreadStep(t)
    /\ AllReturned => (readers = {} /\ wOwner = Nil /\ ~wHeld)
\* ------------------------------------------------- The read-eval loop: a line
\* token lists a line or a pre-run-line-transform hook can yield
LineChoices == {<<"cmd">>, <<"cmd", "arg">>}

\* c.PreCmdRunLineHooks, by position: insertion order is execution order
Hooks == 1..NumHooks

\* a new raw line is taken up once the previous one was abandoned or executed
LineStart(raw) ==
    /\ \/ hpc \in {"idle", "aborted"}
       \/ hpc = "executing" /\ pcE \in {"returned", "unwound"}
    /\ hpc' = "hooks"
    /\ hidx' = 1
    /\ htok' = raw
    /\ hran' = {}
    /\ hfail' = 0
    /\ lastOp' = [op |-> "line", name |-> "start", ret |-> Nil, wasCurrent |-> FALSE]
    /\ UNCHANGED <<menuVars, execVars, concVars, flagVars>>

\* Variant: a failing hook does not stop the pipeline.
AfterHookIgnoresFailure(idx, failed) ==
    IF idx < NumHooks THEN "hooks" ELSE "ready"

\* where the loop goes after the hook at position idx: a failure stops the
\* pipeline at once, the last hook's success makes the line ready to dispatch
AfterHook(idx, failed) ==
    IF failed THEN "aborted"
    ELSE IF idx < NumHooks THEN "hooks" ELSE "ready"

\* the hook at position hidx returns (args, nil): args replaces the tokens
HookReturns(args) ==
    /\ hpc = "hooks"
    /\ hran' = hran \cup {hidx}
    /\ htok' = args
    /\ hidx' = hidx + 1
    /\ hpc' = AfterHook(hidx, FALSE)
    /\ lastOp' = [op |-> "line", name |-> "hook", ret |-> Nil, wasCurrent |-> FALSE]
    /\ UNCHANGED <<menuVars, execVars, concVars, flagVars, hfail>>

\* the hook at position hidx returns a transform error
HookFails ==
    /\ hpc = "hooks"
    /\ hran' = hran \cup {hidx}
    /\ hfail' = hidx
    /\ hpc' = AfterHook(hidx, TRUE)
    /\ lastOp' = [op |-> "line", name |-> "hookerr", ret |-> Nil, wasCurrent |-> FALSE]
    /\ UNCHANGED <<menuVars, execVars, concVars, flagVars, hidx, htok>>

\* every hook succeeded: c.execute(args) is called with the rewritten tokens
Dispatch ==
    /\ hpc = "ready"
    /\ ExecStart(htok)

\* An asynchronous output path reads c.isExecuting. The field is a plain
\* bool written by execute without synchronization, so the read races with
\* the writes of lines 17 and 19: it returns the value written last or the
\* one before it.
AsyncRead ==
    /\ \E v \in {isExecuting, staleExec} : sample' = [at |-> pcE, val |-> v]
    /\ UNCHANGED <<menuVars, execVars, concVars, lineVars, lastOp, wlog, staleExec>>

NextLine ==
    \/ \E raw \in LineChoices : LineStart(raw)
    \/ \E args \in LineChoices : HookReturns(args)
    \/ HookFails
    \/ Dispatch
    \/ \E err \in ParserErrors : \E res \in ParserResults : ParserReturns(err, res)
    \/ ParserPanics
    \/ HandleError
    \/ ExecExit
    \/ AsyncRead

SpecLine == Init /\ [][NextLine]_vars

\* C12: with hooks H1 then H2 in PreCmdRunLineHooks, once H1 has failed for a
\* line no later hook is run for that line, the line is abandoned, and no
\* step of execute is taken for it: its tokens never reach the parser.
C12_FailedHookStopsLine ==
    /\ [](hfail # 0 => /\ \A j \in hran : j <= hfail
                       /\ hpc = "aborted")
    /\ [][hfail # 0 => pcE' = pcE /\ eargs' = eargs]_vars

\* C12 witness: H1 failed for a line after an earlier line went through both
\* hooks and was executed; H2 was not called for the failed line.
C12_Witness ==
    /\ hfail = 1
    /\ hran = {1}
    /\ hpc = "aborted"
    /\ pcE = "returned"
    /\ 2 \in Hooks

\* the values execute has written to isExecuting: TRUE on entry, before the
\* parser is invoked, then FALSE once parsing and error handling are over
C13_WritesTrueThenFalse ==
    /\ pcE \in {"parsing", "handling", "exiting", "panicking"} => wlog = <<TRUE>>
    /\ pcE \in {"returned", "unwound"} => wlog = <<TRUE, FALSE>>

\* C13: execute writes isExecuting exactly twice, TRUE before the parser is
\* invoked and FALSE after the parser and the error handling, and an
\* asynchronous read made while the parser or the error handling is running
\* returns TRUE.
C13_AsyncReaderSeesExecuting ==
    /\ C13_WritesTrueThenFalse
    /\ sample.at \in {"parsing", "handling"} => sample.val = TRUE
====
